---- MODULE Spec2Model ----
(***************************************************************************)
(* go-blip: latency sampler, bounded history store and chart renderer.     *)
(*                                                                         *)
(* src/main.go holds three programs.  The model covers the desktop program *)
(* (doPings, renderChart and the update loop of main, lines 196-398) and   *)
(* the two-target WebSocket server (wsHandler, lines 92-194).  One run of  *)
(* the model is one run of one of the programs: Init chooses which.        *)
(***************************************************************************)
EXTENDS Integers, Sequences, FiniteSets, TLC

(* ----------------------------- bounds --------------------------------- *)

\* Rounds doPings runs in one behaviour (the loop itself is endless).
MaxRounds == 2

\* Rounds already completed when a behaviour starts with a filled store.
WarmLen == 59

\* The largest elapsed time of one http.Get, in milliseconds: more than the
\* second doPings sleeps, so that a round can outlast the interval.
MaxLatency == 1200

\* Ticks the tickers of all viewer connections fire in one behaviour.
MaxTicks == 3

(* ------------------------ program constants --------------------------- *)

\* "Keep only the most recent 60 data points."
Capacity == 60

\* renderChart and the update loop need at least 2 data points.
MinPoints == 2

\* time.Sleep(1 * time.Second), in milliseconds.
SleepMs == 1000

\* time.NewTicker(1 * time.Second), in milliseconds.
TickMs == 1000

\* gLatency = -1 / aLatency = -1 on a probe error.
Failed == -1

\* The viewer connections the server is asked to serve.
Conns == {"c1", "c2"}

(* ------------------------------ state --------------------------------- *)

VARIABLES
    prog,           \* which program runs: "gui", "call" (renderChart on demand), "ws"
    clock,          \* the monotonic clock, in milliseconds
    results,        \* var results []PingResult
    resultsMu,      \* var resultsMu sync.Mutex: "free" or the holder
    pcP,            \* doPings: position in the loop body
    now,            \* doPings: now := time.Now()
    gLatency,       \* doPings: gLatency
    aLatency,       \* doPings: aLatency
    rounds,         \* doPings: rounds started in this behaviour (history)
    probes,         \* doPings: the probes made: the round's outcomes, the counts (history)
    produced,       \* doPings: every sample appended so far, with its probes (history)
    pcU,            \* update loop of main: position
    nU,             \* update loop: n
    loadingVisible, \* loadingText shown (Show) or hidden (Hide)
    chartImage,     \* chartImage.Image: "nil", "placeholder" or "chart"
    pcR,            \* renderChart: position
    nR,             \* renderChart: n
    xValues,        \* renderChart: xValues
    yValuesG,       \* renderChart: yValuesG
    yValuesA,       \* renderChart: yValuesA
    img,            \* renderChart: the value returned, "nil" or "img"
    lenAtEntry,     \* len(results) when renderChart took its second lock (history)
    crashed,        \* the process died of a runtime panic
    pcW,            \* wsHandler, per connection: position
    conn,           \* the connection: "none", "open" or "closed"
    tickerOn,       \* the handler's ticker runs (NewTicker .. Stop)
    tickerC,        \* ticker.C, a channel with room for one tick
    fired,          \* ticks the handler's ticker has fired
    tick,           \* wsHandler: tick
    gLatW,          \* wsHandler: gLatency
    aLatW,          \* wsHandler: aLatency
    data,           \* wsHandler: data, the marshalled result
    wsProbes,       \* wsHandler: the probes made, the ticks taken, the rounds lost (history)
    written         \* the messages written to the connection, with their probes (history)

wsVars == <<pcW, conn, tickerOn, tickerC, fired, tick, gLatW, aLatW, data, wsProbes,
            written>>

vars == <<prog, clock, results, resultsMu, pcP, now, gLatency, aLatency, rounds,
          probes, produced, pcU, nU, loadingVisible, chartImage, pcR, nR,
          xValues, yValuesG, yValuesA, img, lenAtEntry, crashed, wsVars>>

pingVars == <<pcP, now, gLatency, aLatency, rounds, probes, produced>>
updateVars == <<pcU, nU, loadingVisible, chartImage>>
renderVars == <<pcR, nR, xValues, yValuesG, yValuesA, img, lenAtEntry>>

(* ----------------------------- helpers -------------------------------- *)

Min(a, b) == IF a < b THEN a ELSE b

\* type PingResult struct { Timestamp; GstaticLatency; ApenwarrLatency }
PingResult(t, g, a) == [Timestamp |-> t, GstaticLatency |-> g, ApenwarrLatency |-> a]

\* What one http.Get can do: succeed or fail, after ms milliseconds.
Outcomes == {[err |-> FALSE, ms |-> 0], [err |-> FALSE, ms |-> MaxLatency],
             [err |-> TRUE, ms |-> MaxLatency]}

NoProbe == [err |-> FALSE, ms |-> 0]

\* time.Since(start).Milliseconds() read when the clock shows c.
SinceMs(start, c) == c - start

\* if err != nil { latency = -1 }
\* (MeasureKeepsElapsed leaves the elapsed time in place on an error)
MeasureKeepsElapsed(o, start, c) == SinceMs(start, c)
Measure(o, start, c) == IF o.err THEN Failed ELSE SinceMs(start, c)

\* float64(r.GstaticLatency): exact for every magnitude below 2^53.
Float64(v) == v

\* results = results[len(results)-60:] when len(results) > 60
\* (TruncateLate compares with 61; TruncateHead keeps results[:60];
\* TruncateTail keeps results[60:])
TruncateTail(s) == IF Len(s) > Capacity THEN SubSeq(s, Capacity + 1, Len(s)) ELSE s
TruncateLate(s) == IF Len(s) > Capacity + 1 THEN SubSeq(s, Len(s) - Capacity + 1, Len(s)) ELSE s
TruncateHead(s) == IF Len(s) > Capacity THEN SubSeq(s, 1, Capacity) ELSE s
Truncate(s) == IF Len(s) > Capacity THEN SubSeq(s, Len(s) - Capacity + 1, Len(s)) ELSE s

\* json.Marshal(result), by the struct's json tags
Marshal(r) == [timestamp |-> r.Timestamp, gstatic_latency |-> r.GstaticLatency,
               apenwarr_latency |-> r.ApenwarrLatency]

NoData == [timestamp |-> 0, gstatic_latency |-> 0, apenwarr_latency |-> 0]

\* The store after k rounds whose probes all answered within a millisecond.
WarmSample(i) == PingResult((i - 1) * SleepMs, 0, 0)
WarmStore(k) == [i \in 1..k |-> WarmSample(i)]
WarmProduced(k) == [i \in 1..k |-> [sample |-> WarmSample(i), g |-> NoProbe, a |-> NoProbe]]

(* ------------------------------- Init --------------------------------- *)

\* The desktop program with k rounds of doPings behind it, where the update
\* loop (p = "gui") or an on-demand caller of renderChart (p = "call") is
\* about to start; or the server (p = "ws") with a request on /ws for every
\* connection of Conns.
InitDesktop(p, k) ==
    /\ prog = p
    /\ clock = k * SleepMs
    /\ results = WarmStore(k)
    /\ resultsMu = "free"
    /\ pcP = IF p = "ws" THEN "p_off" ELSE "p_now"
    /\ now = 0
    /\ gLatency = 0
    /\ aLatency = 0
    /\ rounds = 0
    /\ probes = [g |-> NoProbe, a |-> NoProbe, ng |-> k, na |-> k]
    /\ produced = WarmProduced(k)
    /\ pcU = IF p = "gui" THEN "u_lock" ELSE "u_off"
    /\ nU = 0
    /\ loadingVisible = TRUE
    /\ chartImage = "nil"
    /\ pcR = "r_idle"
    /\ nR = 0
    /\ xValues = <<>>
    /\ yValuesG = <<>>
    /\ yValuesA = <<>>
    /\ img = "nil"
    /\ lenAtEntry = 0
    /\ crashed = FALSE
    /\ pcW = [c \in Conns |-> IF p = "ws" THEN "w_upgrade" ELSE "w_off"]
    /\ conn = [c \in Conns |-> "none"]
    /\ tickerOn = [c \in Conns |-> FALSE]
    /\ tickerC = [c \in Conns |-> <<>>]
    /\ fired = [c \in Conns |-> 0]
    /\ tick = [c \in Conns |-> 0]
    /\ gLatW = [c \in Conns |-> 0]
    /\ aLatW = [c \in Conns |-> 0]
    /\ data = [c \in Conns |-> NoData]
    /\ wsProbes = [c \in Conns |-> [g |-> NoProbe, a |-> NoProbe, ng |-> 0, na |-> 0,
                                     nt |-> 0, lost |-> 0]]
    /\ written = [c \in Conns |-> <<>>]

\* A fresh process; the desktop program also some rounds into its run.
Init ==
    \/ \E k \in {0, WarmLen} : InitDesktop("gui", k)
    \/ InitDesktop("call", 0)
    \/ InitDesktop("ws", 0)

(* ------------------------------ doPings ------------------------------- *)

\* now := time.Now()
PingNow ==
    /\ ~crashed /\ pcP = "p_now"
    /\ rounds < MaxRounds
    /\ rounds' = rounds + 1
    /\ now' = clock
    /\ pcP' = "p_gstatic"
    /\ UNCHANGED <<prog, clock, results, resultsMu, gLatency, aLatency, probes,
                   produced, updateVars, renderVars, crashed, wsVars>>

\* (PingGstaticStoresEarly locks and appends the sample once gstatic has
\* answered, with the apenwarr slot still to be filled)
PingGstaticStoresEarly(o) ==
    /\ ~crashed /\ pcP = "p_gstatic"
    /\ resultsMu = "free"
    /\ clock' = clock + o.ms
    /\ gLatency' = Measure(o, clock, clock')
    /\ probes' = [probes EXCEPT !.g = o, !.ng = @ + 1]
    /\ results' = Append(results, PingResult(now, gLatency', 0))
    /\ pcP' = "p_apenwarr"
    /\ UNCHANGED <<prog, resultsMu, now, aLatency, rounds, produced,
                   updateVars, renderVars, crashed, wsVars>>

\* (PingGstaticAborts gives the round up when the gstatic probe fails)
PingGstaticAborts(o) ==
    /\ ~crashed /\ pcP = "p_gstatic"
    /\ clock' = clock + o.ms
    /\ gLatency' = Measure(o, clock, clock')
    /\ probes' = [probes EXCEPT !.g = o, !.ng = @ + 1]
    /\ pcP' = IF o.err THEN "p_sleep" ELSE "p_apenwarr"
    /\ UNCHANGED <<prog, results, resultsMu, now, aLatency, rounds, produced,
                   updateVars, renderVars, crashed, wsVars>>

\* start := time.Now(); http.Get(gstaticURL); gLatency := ...
PingGstatic(o) ==
    /\ ~crashed /\ pcP = "p_gstatic"
    /\ clock' = clock + o.ms
    /\ gLatency' = Measure(o, clock, clock')
    /\ probes' = [probes EXCEPT !.g = o, !.ng = @ + 1]
    /\ pcP' = "p_apenwarr"
    /\ UNCHANGED <<prog, results, resultsMu, now, aLatency, rounds, produced,
                   updateVars, renderVars, crashed, wsVars>>

\* start = time.Now(); http.Get(apenwarrURL); aLatency := ...
PingApenwarr(o) ==
    /\ ~crashed /\ pcP = "p_apenwarr"
    /\ clock' = clock + o.ms
    /\ aLatency' = Measure(o, clock, clock')
    /\ probes' = [probes EXCEPT !.a = o, !.na = @ + 1]
    /\ pcP' = "p_lock"
    /\ UNCHANGED <<prog, results, resultsMu, now, gLatency, rounds, produced,
                   updateVars, renderVars, crashed, wsVars>>

\* resultsMu.Lock()
PingLock ==
    /\ ~crashed /\ pcP = "p_lock"
    /\ resultsMu = "free"
    /\ resultsMu' = "doPings"
    /\ pcP' = "p_append"
    /\ UNCHANGED <<prog, clock, results, now, gLatency, aLatency, rounds, probes,
                   produced, updateVars, renderVars, crashed, wsVars>>

\* results = append(results, PingResult{now, gLatency, aLatency})
PingAppend ==
    /\ ~crashed /\ pcP = "p_append"
    /\ results' = Append(results, PingResult(now, gLatency, aLatency))
    /\ produced' = Append(produced, [sample |-> PingResult(now, gLatency, aLatency),
                                     g |-> probes.g, a |-> probes.a])
    /\ pcP' = "p_trunc"
    /\ UNCHANGED <<prog, clock, resultsMu, now, gLatency, aLatency, rounds, probes,
                   updateVars, renderVars, crashed, wsVars>>

\* if len(results) > 60 { results = results[len(results)-60:] }
PingTruncate ==
    /\ ~crashed /\ pcP = "p_trunc"
    /\ results' = Truncate(results)
    /\ pcP' = "p_unlock"
    /\ UNCHANGED <<prog, clock, resultsMu, now, gLatency, aLatency, rounds, probes,
                   produced, updateVars, renderVars, crashed, wsVars>>

\* resultsMu.Unlock()
PingUnlock ==
    /\ ~crashed /\ pcP = "p_unlock"
    /\ resultsMu' = "free"
    /\ pcP' = "p_sleep"
    /\ UNCHANGED <<prog, clock, results, now, gLatency, aLatency, rounds, probes,
                   produced, updateVars, renderVars, crashed, wsVars>>

\* (PingSleepSkipped starts the next iteration without sleeping)
PingSleepSkipped ==
    /\ ~crashed /\ pcP = "p_sleep"
    /\ pcP' = "p_now"
    /\ UNCHANGED <<prog, clock, results, resultsMu, now, gLatency, aLatency, rounds, probes,
                   produced, updateVars, renderVars, crashed, wsVars>>

\* time.Sleep(1 * time.Second), then the next iteration
PingSleep ==
    /\ ~crashed /\ pcP = "p_sleep"
    /\ clock' = clock + SleepMs
    /\ pcP' = "p_now"
    /\ UNCHANGED <<prog, results, resultsMu, now, gLatency, aLatency, rounds, probes, produced,
                   updateVars, renderVars, crashed, wsVars>>

(* ---------------------------- renderChart ----------------------------- *)

\* resultsMu.Lock()  (the first critical section)
RenderLock1 ==
    /\ ~crashed /\ pcR = "r_lock1"
    /\ resultsMu = "free"
    /\ resultsMu' = "renderChart"
    /\ pcR' = "r_count"
    /\ UNCHANGED <<prog, clock, results, pingVars, updateVars, nR, xValues, yValuesG,
                   yValuesA, img, lenAtEntry, crashed, wsVars>>

\* (RenderCountLax returns early for an empty store only)
RenderCountLax ==
    /\ ~crashed /\ pcR = "r_count"
    /\ nR' = Len(results)
    /\ resultsMu' = "free"
    /\ IF Len(results) < MinPoints - 1
          THEN pcR' = "r_ret" /\ img' = "nil"
          ELSE pcR' = "r_lock2" /\ img' = img
    /\ UNCHANGED <<prog, clock, results, pingVars, updateVars, xValues, yValuesG,
                   yValuesA, lenAtEntry, crashed, wsVars>>

\* n := len(results); resultsMu.Unlock(); if n < 2 { return nil }
RenderCount ==
    /\ ~crashed /\ pcR = "r_count"
    /\ nR' = Len(results)
    /\ resultsMu' = "free"
    /\ IF Len(results) < MinPoints
          THEN pcR' = "r_ret" /\ img' = "nil"
          ELSE pcR' = "r_lock2" /\ img' = img
    /\ UNCHANGED <<prog, clock, results, pingVars, updateVars, xValues, yValuesG,
                   yValuesA, lenAtEntry, crashed, wsVars>>

\* resultsMu.Lock(); defer resultsMu.Unlock()
RenderLock2 ==
    /\ ~crashed /\ pcR = "r_lock2"
    /\ resultsMu = "free"
    /\ resultsMu' = "renderChart"
    /\ lenAtEntry' = Len(results)
    /\ pcR' = "r_build"
    /\ UNCHANGED <<prog, clock, results, pingVars, updateVars, nR, xValues, yValuesG,
                   yValuesA, img, crashed, wsVars>>

\* make([]T, n), then  for i, r := range results { xValues[i] = ...; ... }
\* Slot i of a slice of length n exists for i < n only: a longer results
\* makes xValues[i] panic with "index out of range", which no one recovers.
FillSeries(n, rs, field) ==
    [i \in 1..n |-> IF i <= Len(rs) THEN Float64(rs[i][field]) ELSE 0]
FillTimes(n, rs) ==
    [i \in 1..n |-> IF i <= Len(rs) THEN rs[i].Timestamp ELSE 0]

\* (RenderBuildTrims cuts results to the n samples the arrays have room for)
RenderBuildTrims ==
    /\ ~crashed /\ pcR = "r_build"
    /\ results' = SubSeq(results, 1, Min(nR, Len(results)))
    /\ pcR' = "r_render"
    /\ xValues' = FillTimes(nR, results')
    /\ yValuesG' = FillSeries(nR, results', "GstaticLatency")
    /\ yValuesA' = FillSeries(nR, results', "ApenwarrLatency")
    /\ UNCHANGED <<prog, clock, resultsMu, pingVars, updateVars, nR, img,
                   lenAtEntry, crashed, wsVars>>

RenderBuild ==
    /\ ~crashed /\ pcR = "r_build"
    /\ IF Len(results) > nR
          THEN /\ crashed' = TRUE
               /\ pcR' = "r_panic"
               /\ xValues' = FillTimes(nR, results)
               /\ yValuesG' = FillSeries(nR, results, "GstaticLatency")
               /\ yValuesA' = FillSeries(nR, results, "ApenwarrLatency")
          ELSE /\ crashed' = crashed
               /\ pcR' = "r_render"
               /\ xValues' = FillTimes(nR, results)
               /\ yValuesG' = FillSeries(nR, results, "GstaticLatency")
               /\ yValuesA' = FillSeries(nR, results, "ApenwarrLatency")
    /\ UNCHANGED <<prog, clock, results, resultsMu, pingVars, updateVars, nR, img,
                   lenAtEntry, wsVars>>

\* graph.Render(chart.PNG, buffer): on an error return nil (the deferred Unlock runs)
RenderGraph(ok) ==
    /\ ~crashed /\ pcR = "r_render"
    /\ IF ok
          THEN /\ pcR' = "r_decode"
               /\ UNCHANGED <<resultsMu, img, xValues, yValuesG, yValuesA>>
          ELSE /\ pcR' = "r_ret"
               /\ img' = "nil"
               /\ resultsMu' = "free"
               /\ xValues' = <<>> /\ yValuesG' = <<>> /\ yValuesA' = <<>>
    /\ UNCHANGED <<prog, clock, results, pingVars, updateVars, nR, lenAtEntry, crashed, wsVars>>

\* image.Decode(buffer): on an error return nil, else return img (the deferred Unlock runs)
RenderDecode(ok) ==
    /\ ~crashed /\ pcR = "r_decode"
    /\ pcR' = "r_ret"
    /\ img' = IF ok THEN "img" ELSE "nil"
    /\ resultsMu' = "free"
    /\ xValues' = <<>> /\ yValuesG' = <<>> /\ yValuesA' = <<>>
    /\ UNCHANGED <<prog, clock, results, pingVars, updateVars, nR, lenAtEntry, crashed, wsVars>>

\* renderChart called on demand, outside the update loop
CallRender ==
    /\ ~crashed /\ prog = "call" /\ pcR = "r_idle"
    /\ pcR' = "r_lock1"
    /\ UNCHANGED <<prog, clock, results, resultsMu, pingVars, updateVars, nR, xValues,
                   yValuesG, yValuesA, img, lenAtEntry, crashed, wsVars>>

CallReturn ==
    /\ ~crashed /\ prog = "call" /\ pcR = "r_ret"
    /\ pcR' = "r_idle"
    /\ nR' = 0 /\ img' = "nil" /\ lenAtEntry' = 0
    /\ UNCHANGED <<prog, clock, results, resultsMu, pingVars, updateVars, xValues,
                   yValuesG, yValuesA, crashed, wsVars>>

(* ------------------------ update loop of main ------------------------- *)

\* resultsMu.Lock()
UpdateLock ==
    /\ ~crashed /\ pcU = "u_lock"
    /\ resultsMu = "free"
    /\ resultsMu' = "main"
    /\ pcU' = "u_count"
    /\ UNCHANGED <<prog, clock, results, pingVars, nU, loadingVisible, chartImage,
                   renderVars, crashed, wsVars>>

\* n := len(results); resultsMu.Unlock()
UpdateCount ==
    /\ ~crashed /\ pcU = "u_count"
    /\ nU' = Len(results)
    /\ resultsMu' = "free"
    /\ pcU' = "u_branch"
    /\ UNCHANGED <<prog, clock, results, pingVars, loadingVisible, chartImage,
                   renderVars, crashed, wsVars>>

\* if n < 2 { Show; placeholder; Refresh } else { Hide; renderChart() ... }
UpdateBranch ==
    /\ ~crashed /\ pcU = "u_branch"
    /\ IF nU < MinPoints
          THEN /\ loadingVisible' = TRUE
               /\ chartImage' = "placeholder"
               /\ pcU' = "u_sleep"
               /\ pcR' = pcR
          ELSE /\ loadingVisible' = FALSE
               /\ chartImage' = chartImage
               /\ pcU' = "u_call"
               /\ pcR' = "r_lock1"
    /\ UNCHANGED <<prog, clock, results, resultsMu, pingVars, nU, nR, xValues, yValuesG,
                   yValuesA, img, lenAtEntry, crashed, wsVars>>

\* if img := renderChart(); img != nil { chartImage.Image = img; Refresh }
UpdateShow ==
    /\ ~crashed /\ pcU = "u_call" /\ pcR = "r_ret"
    /\ chartImage' = IF img # "nil" THEN "chart" ELSE chartImage
    /\ pcU' = "u_sleep"
    /\ pcR' = "r_idle"
    /\ nR' = 0 /\ img' = "nil" /\ lenAtEntry' = 0
    /\ UNCHANGED <<prog, clock, results, resultsMu, pingVars, nU, loadingVisible,
                   xValues, yValuesG, yValuesA, crashed, wsVars>>

\* time.Sleep(1 * time.Second), then the next iteration
UpdateSleep ==
    /\ ~crashed /\ pcU = "u_sleep"
    /\ pcU' = "u_lock"
    /\ UNCHANGED <<prog, clock, results, resultsMu, pingVars, nU, loadingVisible,
                   chartImage, renderVars, crashed, wsVars>>

(* ----------------------------- wsHandler ------------------------------ *)

\* One handler goroutine per connection.  The handlers' probes overlap in
\* time, so the server's runs do not advance the clock: a probe's elapsed
\* time is measured from the clock's reading to that reading plus o.ms, and
\* a tick carries the time its ticker fired, a multiple of the period.

\* conn, err := upgrader.Upgrade(w, r, nil); on an error return;
\* defer conn.Close(); ticker := time.NewTicker(1 * time.Second); defer ticker.Stop()
WsUpgrade(c, ok) ==
    /\ pcW[c] = "w_upgrade"
    /\ IF ok
          THEN /\ pcW' = [pcW EXCEPT ![c] = "w_select"]
               /\ conn' = [conn EXCEPT ![c] = "open"]
               /\ tickerOn' = [tickerOn EXCEPT ![c] = TRUE]
          ELSE /\ pcW' = [pcW EXCEPT ![c] = "w_done"]
               /\ UNCHANGED <<conn, tickerOn>>
    /\ UNCHANGED <<prog, clock, results, resultsMu, pingVars, updateVars, renderVars,
                   crashed, tickerC, fired, tick, gLatW, aLatW, data, wsProbes, written>>

\* The runtime's side of the ticker: every second it sends the time on
\* ticker.C, and drops the tick when the channel still holds the previous one.
TickerFire(c) ==
    /\ tickerOn[c]
    /\ fired["c1"] + fired["c2"] < MaxTicks
    /\ fired' = [fired EXCEPT ![c] = @ + 1]
    /\ tickerC' = [tickerC EXCEPT ![c] = IF @ = <<>> THEN <<fired'[c] * TickMs>> ELSE @]
    /\ UNCHANGED <<prog, clock, results, resultsMu, pingVars, updateVars, renderVars,
                   crashed, pcW, conn, tickerOn, tick, gLatW, aLatW, data, wsProbes,
                   written>>

\* (WsSelectPeeks reads the tick and leaves it in the channel)
WsSelectPeeks(c) ==
    /\ pcW[c] = "w_select"
    /\ tickerC[c] # <<>>
    /\ tick' = [tick EXCEPT ![c] = Head(tickerC[c])]
    /\ wsProbes' = [wsProbes EXCEPT ![c].nt = @ + 1]
    /\ pcW' = [pcW EXCEPT ![c] = "w_gstatic"]
    /\ UNCHANGED <<prog, clock, results, resultsMu, pingVars, updateVars, renderVars,
                   crashed, conn, tickerOn, tickerC, fired, gLatW, aLatW, data, written>>

\* case tick := <-ticker.C
WsSelect(c) ==
    /\ pcW[c] = "w_select"
    /\ tickerC[c] # <<>>
    /\ tick' = [tick EXCEPT ![c] = Head(tickerC[c])]
    /\ tickerC' = [tickerC EXCEPT ![c] = Tail(@)]
    /\ wsProbes' = [wsProbes EXCEPT ![c].nt = @ + 1]
    /\ pcW' = [pcW EXCEPT ![c] = "w_gstatic"]
    /\ UNCHANGED <<prog, clock, results, resultsMu, pingVars, updateVars, renderVars,
                   crashed, conn, tickerOn, fired, gLatW, aLatW, data, written>>

\* start := time.Now(); http.Get(gstaticURL); gLatency := ...
WsGstatic(c, o) ==
    /\ pcW[c] = "w_gstatic"
    /\ gLatW' = [gLatW EXCEPT ![c] = Measure(o, clock, clock + o.ms)]
    /\ wsProbes' = [wsProbes EXCEPT ![c].g = o, ![c].ng = @ + 1]
    /\ pcW' = [pcW EXCEPT ![c] = "w_apenwarr"]
    /\ UNCHANGED <<prog, clock, results, resultsMu, pingVars, updateVars, renderVars,
                   crashed, conn, tickerOn, tickerC, fired, tick, aLatW, data, written>>

\* start = time.Now(); http.Get(apenwarrURL); aLatency := ...
WsApenwarr(c, o) ==
    /\ pcW[c] = "w_apenwarr"
    /\ aLatW' = [aLatW EXCEPT ![c] = Measure(o, clock, clock + o.ms)]
    /\ wsProbes' = [wsProbes EXCEPT ![c].a = o, ![c].na = @ + 1]
    /\ pcW' = [pcW EXCEPT ![c] = "w_marshal"]
    /\ UNCHANGED <<prog, clock, results, resultsMu, pingVars, updateVars, renderVars,
                   crashed, conn, tickerOn, tickerC, fired, tick, gLatW, data, written>>

\* (WsMarshalGivesUp returns from the handler when json.Marshal fails)
WsMarshalGivesUp(c, ok) ==
    /\ pcW[c] = "w_marshal"
    /\ IF ok
          THEN /\ data' = [data EXCEPT ![c] = Marshal(PingResult(tick[c], gLatW[c], aLatW[c]))]
               /\ pcW' = [pcW EXCEPT ![c] = "w_write"]
               /\ UNCHANGED <<conn, tickerOn>>
          ELSE /\ data' = data
               /\ pcW' = [pcW EXCEPT ![c] = "w_done"]
               /\ conn' = [conn EXCEPT ![c] = "closed"]
               /\ tickerOn' = [tickerOn EXCEPT ![c] = FALSE]
    /\ wsProbes' = [wsProbes EXCEPT ![c].lost = IF ok THEN @ ELSE @ + 1]
    /\ UNCHANGED <<prog, clock, results, resultsMu, pingVars, updateVars, renderVars,
                   crashed, tickerC, fired, tick, gLatW, aLatW, written>>

\* result := PingResult{tick.UTC(), gLatency, aLatency};
\* data, err := json.Marshal(result); on an error continue
WsMarshal(c, ok) ==
    /\ pcW[c] = "w_marshal"
    /\ IF ok
          THEN /\ data' = [data EXCEPT ![c] = Marshal(PingResult(tick[c], gLatW[c], aLatW[c]))]
               /\ pcW' = [pcW EXCEPT ![c] = "w_write"]
          ELSE /\ data' = data
               /\ pcW' = [pcW EXCEPT ![c] = "w_select"]
    /\ wsProbes' = [wsProbes EXCEPT ![c].lost = IF ok THEN @ ELSE @ + 1]
    /\ UNCHANGED <<prog, clock, results, resultsMu, pingVars, updateVars, renderVars,
                   crashed, conn, tickerOn, tickerC, fired, tick, gLatW, aLatW, written>>

\* (WsWriteStopsAll tears every connection down when one write fails)
WsWriteStopsAll(c, ok) ==
    /\ pcW[c] = "w_write"
    /\ IF ok
          THEN /\ written' = [written EXCEPT ![c] =
                      Append(@, [msg |-> data[c], g |-> wsProbes[c].g, a |-> wsProbes[c].a])]
               /\ pcW' = [pcW EXCEPT ![c] = "w_select"]
               /\ UNCHANGED <<conn, tickerOn>>
          ELSE /\ written' = written
               /\ pcW' = [d \in Conns |-> "w_done"]
               /\ conn' = [d \in Conns |-> IF conn[d] = "open" THEN "closed" ELSE conn[d]]
               /\ tickerOn' = [d \in Conns |-> FALSE]
    /\ wsProbes' = [wsProbes EXCEPT ![c].lost = IF ok THEN @ ELSE @ + 1]
    /\ UNCHANGED <<prog, clock, results, resultsMu, pingVars, updateVars, renderVars,
                   crashed, tickerC, fired, tick, gLatW, aLatW, data>>

\* (WsWriteCarriesOn logs the write error and goes on with the loop)
WsWriteCarriesOn(c, ok) ==
    /\ pcW[c] = "w_write"
    /\ written' = IF ok THEN [written EXCEPT ![c] =
                      Append(@, [msg |-> data[c], g |-> wsProbes[c].g, a |-> wsProbes[c].a])]
                  ELSE written
    /\ pcW' = [pcW EXCEPT ![c] = "w_select"]
    /\ wsProbes' = [wsProbes EXCEPT ![c].lost = IF ok THEN @ ELSE @ + 1]
    /\ UNCHANGED <<prog, clock, results, resultsMu, pingVars, updateVars, renderVars,
                   crashed, conn, tickerOn, tickerC, fired, tick, gLatW, aLatW, data>>

\* conn.WriteMessage(websocket.TextMessage, data); on an error return,
\* which runs the deferred ticker.Stop() and conn.Close()
WsWrite(c, ok) ==
    /\ pcW[c] = "w_write"
    /\ IF ok
          THEN /\ written' = [written EXCEPT ![c] =
                      Append(@, [msg |-> data[c], g |-> wsProbes[c].g, a |-> wsProbes[c].a])]
               /\ pcW' = [pcW EXCEPT ![c] = "w_select"]
               /\ UNCHANGED <<conn, tickerOn>>
          ELSE /\ written' = written
               /\ pcW' = [pcW EXCEPT ![c] = "w_done"]
               /\ conn' = [conn EXCEPT ![c] = "closed"]
               /\ tickerOn' = [tickerOn EXCEPT ![c] = FALSE]
    /\ wsProbes' = [wsProbes EXCEPT ![c].lost = IF ok THEN @ ELSE @ + 1]
    /\ UNCHANGED <<prog, clock, results, resultsMu, pingVars, updateVars, renderVars,
                   crashed, tickerC, fired, tick, gLatW, aLatW, data>>

(* ------------------------------- Next --------------------------------- *)

Next ==
    \/ PingNow
    \/ \E o \in Outcomes : PingGstatic(o)
    \/ \E o \in Outcomes : PingApenwarr(o)
    \/ PingLock
    \/ PingAppend
    \/ PingTruncate
    \/ PingUnlock
    \/ PingSleep
    \/ RenderLock1
    \/ RenderCount
    \/ RenderLock2
    \/ RenderBuild
    \/ \E ok \in BOOLEAN : RenderGraph(ok)
    \/ \E ok \in BOOLEAN : RenderDecode(ok)
    \/ CallRender
    \/ CallReturn
    \/ UpdateLock
    \/ UpdateCount
    \/ UpdateBranch
    \/ UpdateShow
    \/ UpdateSleep
    \/ \E c \in Conns : \E ok \in BOOLEAN : WsUpgrade(c, ok)
    \/ \E c \in Conns : TickerFire(c)
    \/ \E c \in Conns : WsSelect(c)
    \/ \E c \in Conns : \E o \in Outcomes : WsGstatic(c, o)
    \/ \E c \in Conns : \E o \in Outcomes : WsApenwarr(c, o)
    \/ \E c \in Conns : \E ok \in BOOLEAN : WsMarshal(c, ok)
    \/ \E c \in Conns : \E ok \in BOOLEAN : WsWrite(c, ok)

Spec == Init /\ [][Next]_vars

(* ------------------------------ claims -------------------------------- *)

\* renderChart has built its series and is drawing them.
Drawing == pcR \in {"r_render", "r_decode"}

\* C1: renderChart builds its series from one point-in-time view of the
\* store: the count n of the first critical section is the length of results
\* iterated in the second one, every series gets as many points as results
\* holds, and no slot past the end of the n-sized arrays is indexed.
C1_RenderReadsOneSnapshot ==
    /\ pcR # "r_panic"
    /\ pcR = "r_build" => nR = Len(results)
    /\ Drawing => /\ Len(xValues) = Len(results)
                  /\ Len(yValuesG) = Len(results)
                  /\ Len(yValuesA) = Len(results)

\* C2: whenever doPings is outside its critical section, results holds at
\* most 60 samples.
C2_LenAtMostCapacity == resultsMu # "doPings" => Len(results) <= Capacity

\* More than 60 samples were produced, and the store, unlocked, holds 60.
C2_Witness ==
    /\ resultsMu = "free"
    /\ rounds > 0
    /\ Len(produced) > Capacity
    /\ Len(results) = Capacity

\* The last m samples produced, oldest first.
LastProduced(m) ==
    [i \in 1..m |-> produced[Len(produced) - m + i].sample]

\* C3: after k completed rounds the store holds exactly the last min(k, 60)
\* samples produced, oldest first (so the k - 60 oldest are the ones dropped).
C3_StoreIsLastProduced ==
    pcP # "p_trunc" => results = LastProduced(Min(Len(produced), Capacity))

\* Round 61 is complete: its sample is the newest of the store, the sample
\* after the first one produced is the oldest.
C3_Witness ==
    /\ pcP = "p_sleep"
    /\ Len(produced) = Capacity + 1
    /\ results[Capacity] = produced[Capacity + 1].sample
    /\ results[1] = produced[2].sample

\* C4: renderChart does not hold resultsMu while graph.Render or
\* image.Decode runs.
C4_DrawsUnlocked == Drawing => resultsMu # "renderChart"

\* The points of one series handed to the chart: <<x, y>> pairs.
Points(ys) == {<<xValues[j], ys[j]>> : j \in 1..Len(xValues)}

\* C5: a sample whose slot is the failure sentinel gives the chart no point
\* with a numeric value at its timestamp in that target's series.
C5_FailedNeverPlotted ==
    Drawing =>
        \A i \in 1..Len(results) :
            /\ results[i].GstaticLatency = Failed =>
                   ~ \E pt \in Points(yValuesG) : pt[1] = results[i].Timestamp /\ pt[2] \in Int
            /\ results[i].ApenwarrLatency = Failed =>
                   ~ \E pt \in Points(yValuesA) : pt[1] = results[i].Timestamp /\ pt[2] \in Int

\* The slot a probe with outcome o fills: the sentinel, or its elapsed time.
Slot(o) == IF o.err THEN Failed ELSE o.ms

\* C6: a failed probe does not abort the round.  In doPings and in
\* wsHandler every gstatic probe, whatever its outcome, is followed by the
\* apenwarr probe of the same round, and the round yields one sample whose
\* two slots are the two probes' own results, the sentinel for a failed one:
\* doPings appends it, wsHandler hands it to the connection (it is written
\* unless json.Marshal or WriteMessage itself fails).
C6_RoundSurvivesProbeFailure ==
    /\ pcP \in {"p_now", "p_gstatic", "p_trunc", "p_unlock", "p_sleep", "p_off"} =>
           probes.ng = Len(produced) /\ probes.na = Len(produced)
    /\ pcP = "p_apenwarr" =>
           probes.ng = Len(produced) + 1 /\ probes.na = Len(produced)
    /\ pcP \in {"p_lock", "p_append"} =>
           probes.ng = Len(produced) + 1 /\ probes.na = Len(produced) + 1
    /\ \A i \in 1..Len(produced) :
           /\ produced[i].sample.GstaticLatency = Slot(produced[i].g)
           /\ produced[i].sample.ApenwarrLatency = Slot(produced[i].a)
    /\ \A c \in Conns :
           LET w == wsProbes[c] IN
           /\ pcW[c] = "w_gstatic" =>
                  w.ng = w.nt - 1 /\ w.na = w.nt - 1 /\ Len(written[c]) + w.lost = w.nt - 1
           /\ pcW[c] = "w_apenwarr" =>
                  w.ng = w.nt /\ w.na = w.nt - 1 /\ Len(written[c]) + w.lost = w.nt - 1
           /\ pcW[c] \in {"w_marshal", "w_write"} =>
                  w.ng = w.nt /\ w.na = w.nt /\ Len(written[c]) + w.lost = w.nt - 1
           /\ pcW[c] \in {"w_off", "w_upgrade", "w_select", "w_done"} =>
                  w.ng = w.nt /\ w.na = w.nt /\ Len(written[c]) + w.lost = w.nt
           /\ pcW[c] = "w_write" =>
                  /\ data[c].gstatic_latency = Slot(w.g)
                  /\ data[c].apenwarr_latency = Slot(w.a)
           /\ \A i \in 1..Len(written[c]) :
                  /\ written[c][i].msg.gstatic_latency = Slot(written[c][i].g)
                  /\ written[c][i].msg.apenwarr_latency = Slot(written[c][i].a)

\* A round of doPings whose gstatic probe failed is complete: its sample is
\* in the store with the sentinel in one slot and apenwarr's time in the other.
C6_Witness ==
    /\ pcP = "p_sleep"
    /\ rounds = 1
    /\ produced[Len(produced)].g.err
    /\ ~produced[Len(produced)].a.err
    /\ results[Len(results)].GstaticLatency = Failed
    /\ results[Len(results)].ApenwarrLatency = MaxLatency

\* Every sample recorded so far, with the outcomes of its two probes.
Recorded ==
    {<<produced[i].sample.GstaticLatency, produced[i].g>> : i \in 1..Len(produced)}
    \cup {<<produced[i].sample.ApenwarrLatency, produced[i].a>> : i \in 1..Len(produced)}
    \cup UNION {{<<written[c][i].msg.gstatic_latency, written[c][i].g>> :
                    i \in 1..Len(written[c])} : c \in Conns}
    \cup UNION {{<<written[c][i].msg.apenwarr_latency, written[c][i].a>> :
                    i \in 1..Len(written[c])} : c \in Conns}

\* C7: every latency slot recorded is the sentinel -1 or a non-negative
\* number of milliseconds, and it is the sentinel exactly when that
\* target's http.Get returned an error in that round.
C7_SentinelIffProbeError ==
    \A r \in Recorded :
        /\ r[1] = Failed \/ r[1] >= 0
        /\ r[1] = Failed <=> r[2].err

\* A viewer was sent a message with a positive gstatic latency and a failed
\* apenwarr probe.
C7_Witness ==
    \E c \in Conns : \E i \in 1..Len(written[c]) :
        /\ ~written[c][i].g.err
        /\ written[c][i].msg.gstatic_latency > 0
        /\ written[c][i].a.err
        /\ written[c][i].msg.apenwarr_latency = Failed

\* C8: with fewer than 2 samples in the store when renderChart reads its
\* length, renderChart returns nil and builds no series (it goes on to its
\* second critical section only with n >= 2); and an update-loop iteration
\* that counted fewer than 2 samples shows the placeholder, not a chart.
C8_TooFewSamplesNoChart ==
    /\ pcR \in {"r_lock2", "r_build", "r_render", "r_decode", "r_panic"} => nR >= MinPoints
    /\ pcR = "r_ret" /\ nR < MinPoints =>
           img = "nil" /\ lenAtEntry = 0 /\ xValues = <<>> /\ yValuesG = <<>> /\ yValuesA = <<>>
    /\ pcU = "u_sleep" /\ nU < MinPoints =>
           loadingVisible /\ chartImage = "placeholder"

\* renderChart found one sample in the store and has returned nil.
C8_Witness ==
    /\ pcR = "r_ret"
    /\ nR = 1
    /\ Len(results) = 1
    /\ img = "nil"

\* C9: no step of renderChart, on any return path, changes results; every
\* change of results is made by doPings inside its critical section.
C9_RenderLeavesStore ==
    [][/\ pcR' # pcR => results' = results
       /\ results' # results => pcP \in {"p_append", "p_trunc"} /\ resultsMu = "doPings"]_vars

\* renderChart has returned an image of a store of capacity size.
C9_Witness ==
    /\ pcR = "r_ret"
    /\ img = "img"
    /\ nR = Capacity
    /\ Len(results) = Capacity

\* C10: a rendering failure is never fatal: the process does not crash, and
\* renderChart returns with resultsMu released.
C10_RenderFailureNotFatal ==
    /\ ~crashed
    /\ pcR = "r_ret" => resultsMu # "renderChart"

\* The handler of connection c has returned.
Returned(c) == pcW[c] = "w_done"

\* C11: when conn.WriteMessage fails, wsHandler returns, the connection is
\* closed and its ticker stopped; from then on the handler issues no probe
\* and writes no message on that connection (the failed sample is not
\* retried, nothing is sent later).
C11_WriteFailureTearsDown ==
    [][\A c \in Conns :
          /\ pcW[c] = "w_write" /\ wsProbes'[c].lost > wsProbes[c].lost =>
                 /\ Returned(c)'
                 /\ conn'[c] = "closed"
                 /\ ~tickerOn'[c]
                 /\ written'[c] = written[c]
          /\ Returned(c) =>
                 /\ Returned(c)'
                 /\ conn'[c] = conn[c]
                 /\ tickerOn'[c] = tickerOn[c]
                 /\ fired'[c] = fired[c]
                 /\ wsProbes'[c] = wsProbes[c]
                 /\ written'[c] = written[c]]_vars

\* A connection took one message, its second write failed, and it is closed
\* with its ticker stopped.
C11_Witness ==
    \E c \in Conns :
        /\ Returned(c)
        /\ conn[c] = "closed"
        /\ ~tickerOn[c]
        /\ Len(written[c]) = 1
        /\ wsProbes[c].nt = 2
        /\ wsProbes[c].lost = 1

\* Everything the handler of connection c owns.
Handler(c) == <<pcW[c], conn[c], tickerOn[c], tickerC[c], fired[c], tick[c], gLatW[c],
                aLatW[c], data[c], wsProbes[c], written[c]>>

\* C12: a write failure or disconnect of one viewer does not affect the
\* others: a step of one handler (its return included) changes nothing of
\* another connection's handler, ticker, channel or messages, and a handler
\* has returned only because its own upgrade or its own write failed.
C12_ViewersIndependent ==
    /\ [](\A c \in Conns :
             Returned(c) => \/ conn[c] = "none"
                            \/ conn[c] = "closed" /\ wsProbes[c].lost > 0)
    /\ [][\A c \in Conns : \A d \in Conns \ {c} :
             Handler(c)' # Handler(c) => Handler(d)' = Handler(d)]_vars

\* One viewer's first write failed and its handler has returned; the other
\* viewer is connected and has received two messages.
C12_Witness ==
    \E c \in Conns : \E d \in Conns \ {c} :
        /\ Returned(c)
        /\ conn[c] = "closed"
        /\ written[c] = <<>>
        /\ conn[d] = "open"
        /\ tickerOn[d]
        /\ pcW[d] = "w_select"
        /\ Len(written[d]) = 2

\* C13: on one connection the timestamps of successive messages are strictly
\* increasing (no reordering, no duplicate), also when a round outlasts the
\* tick interval and ticks fire while the handler is busy.
C13_StreamInOrder ==
    \A c \in Conns : \A i \in 1..Len(written[c]) : \A j \in 1..Len(written[c]) :
        i < j => written[c][i].msg.timestamp < written[c][j].msg.timestamp

\* A viewer has two messages, of the first and the second tick; its ticker
\* fired a third time while the second tick was still waiting in the channel.
C13_Witness ==
    \E c \in Conns :
        /\ Len(written[c]) = 2
        /\ written[c][1].msg.timestamp = TickMs
        /\ written[c][2].msg.timestamp = 2 * TickMs
        /\ fired[c] = 3
        /\ tickerC[c] = <<>>

\* C14: a round yields one sample, published once to every connected viewer:
\* two viewers' messages of the same round (the same tick time) are the same
\* message, and no more gstatic probes are made than one ticker has fired
\* rounds, however many viewers are connected.
C14_OneSamplePerRound ==
    /\ \A c \in Conns : \A d \in Conns :
           \A i \in 1..Len(written[c]) : \A j \in 1..Len(written[d]) :
               written[c][i].msg.timestamp = written[d][j].msg.timestamp =>
                   written[c][i].msg = written[d][j].msg
    /\ wsProbes["c1"].ng + wsProbes["c2"].ng <=
           (IF fired["c1"] > fired["c2"] THEN fired["c1"] ELSE fired["c2"])

\* C15: the samples of consecutive rounds of doPings have strictly
\* increasing timestamps, so results is always sorted by strictly increasing
\* timestamp (and so is the sequence of all samples produced).
C15_TimestampsIncrease ==
    /\ \A i \in 1..(Len(results) - 1) : results[i].Timestamp < results[i + 1].Timestamp
    /\ \A i \in 1..(Len(produced) - 1) :
           produced[i].sample.Timestamp < produced[i + 1].sample.Timestamp

\* Two rounds whose probes all answered within a millisecond: their samples
\* are one sleep apart.
C15_Witness ==
    /\ Len(results) = 2
    /\ results[1].Timestamp = 0
    /\ results[2].Timestamp = SleepMs

\* A reader (the update loop or renderChart) holds resultsMu.
ReaderHoldsLock == resultsMu \in {"main", "renderChart"}

\* C16: a round is atomic with respect to the store.  results changes only
\* inside doPings' critical section, after both probes of the round have
\* returned, and the sample appended carries both probes' results; so a
\* reader holding resultsMu sees complete samples only, and the steps of a
\* round before its append leave the store as it was.
C16_RoundIsAtomic ==
    /\ [](ReaderHoldsLock =>
             /\ pcP \notin {"p_append", "p_trunc", "p_unlock"}
             /\ \A i \in 1..Len(results) : \E j \in 1..Len(produced) :
                    /\ results[i] = produced[j].sample
                    /\ results[i].GstaticLatency = Slot(produced[j].g)
                    /\ results[i].ApenwarrLatency = Slot(produced[j].a))
    /\ [][results' # results =>
             /\ resultsMu = "doPings"
             /\ probes.ng = probes.na
             /\ pcP = "p_append" =>
                    results' = Append(results, PingResult(now, Slot(probes.g), Slot(probes.a)))]_vars

\* renderChart holds the lock while doPings is between the two probes of
\* its second round: the store holds the one complete sample.
C16_Witness ==
    /\ resultsMu = "renderChart"
    /\ pcP = "p_apenwarr"
    /\ rounds = 2
    /\ probes.ng = probes.na + 1
    /\ Len(results) = Len(produced)

\* The last round doPings completed, when, and how long its probes took.
LastRound == produced[Len(produced)]
LastRoundMs == LastRound.g.ms + LastRound.a.ms
LastRoundEnd == LastRound.sample.Timestamp + LastRoundMs

\* No loop has two rounds in flight, and a ticker never has more than one
\* tick pending, which the waiting handler can take at once.
RoundsDoNotStack ==
    /\ probes.na <= probes.ng /\ probes.ng <= probes.na + 1
    /\ \A c \in Conns :
           /\ wsProbes[c].na <= wsProbes[c].ng /\ wsProbes[c].ng <= wsProbes[c].nt
           /\ wsProbes[c].nt <= wsProbes[c].na + 1
           /\ wsProbes[c].nt <= fired[c]
           /\ Len(tickerC[c]) <= 1
           /\ pcW[c] = "w_select" /\ tickerC[c] # <<>> => ENABLED WsSelect(c)

\* C17: slow rounds do not stack up, and after a round that lasted longer
\* than the interval the loop starts its next round immediately; in
\* doPings: the next round's now is the moment the slow round ended.
C17_NextRoundAtOnce ==
    /\ RoundsDoNotStack
    /\ pcP = "p_gstatic" /\ Len(produced) > 0 /\ LastRoundMs > SleepMs =>
           now = LastRoundEnd

\* The next step of doPings, and the next step of the reader holding the lock.
DoPingsStep ==
    \/ PingNow
    \/ \E o \in Outcomes : PingGstatic(o)
    \/ \E o \in Outcomes : PingApenwarr(o)
    \/ PingLock \/ PingAppend \/ PingTruncate \/ PingUnlock \/ PingSleep
ReaderStep ==
    \/ UpdateCount \/ RenderCount \/ RenderBuild
    \/ \E ok \in BOOLEAN : RenderGraph(ok)
    \/ \E ok \in BOOLEAN : RenderDecode(ok)

\* C18: nothing stops doPings: whatever the probes returned and whatever the
\* renderer and the update loop do, doPings (with rounds left to run) can
\* take its next step, or waits for resultsMu while the reader holding it
\* can go on to release it.
C18_SamplerNeverStopped ==
    pcP # "p_off" /\ ~(pcP = "p_now" /\ rounds >= MaxRounds) =>
        \/ ENABLED DoPingsStep
        \/ pcP = "p_lock" /\ ReaderHoldsLock /\ ENABLED ReaderStep

\* C19: when json.Marshal fails, nothing is written for that round, the
\* connection stays open with its ticker running, and the handler is back
\* at the select, where the next tick starts the next round.
C19_MarshalFailureSkipsRound ==
    [][\A c \in Conns :
          pcW[c] = "w_marshal" /\ wsProbes'[c].lost > wsProbes[c].lost =>
              /\ written'[c] = written[c]
              /\ conn'[c] = "open"
              /\ tickerOn'[c]
              /\ pcW'[c] = "w_select"
              /\ tickerC'[c] = tickerC[c]
              /\ wsProbes'[c].nt = wsProbes[c].nt]_vars

\* The first round of a connection was lost to json.Marshal; the second
\* round's message, of the second tick, is the only one written.
C19_Witness ==
    \E c \in Conns :
        /\ conn[c] = "open"
        /\ pcW[c] = "w_select"
        /\ wsProbes[c].nt = 2
        /\ wsProbes[c].lost = 1
        /\ Len(written[c]) = 1
        /\ written[c][1].msg.timestamp = 2 * TickMs

\* The length a reader finds once it has the lock: doPings leaves its
\* critical section with at most 60 samples.
ObservableLen == Min(Len(results), Capacity)

\* C20: the length of the store never decreases from one observation under
\* resultsMu to the next: it grows by one per round up to 60 and stays 60.
\* So once the update loop has counted at least 2 samples and hidden the
\* placeholder it never counts fewer than 2 again and never shows the
\* placeholder again, and renderChart called by the update loop never
\* returns nil from its sample-count check.
C20_LengthNeverDecreases ==
    /\ [][/\ ObservableLen' >= ObservableLen
          /\ ObservableLen' <= ObservableLen + 1
          /\ nU' # nU => nU' = Len(results) /\ nU' >= nU
          /\ nU >= MinPoints => nU' >= MinPoints
          /\ ~loadingVisible =>
                 /\ ~loadingVisible'
                 /\ chartImage' # chartImage => chartImage' = "chart"]_vars
    /\ [](pcU = "u_call" /\ pcR \notin {"r_lock1", "r_count"} =>
             nR >= nU /\ nR >= MinPoints)

\* The update loop, with the placeholder hidden and a chart on display,
\* has counted the store again after the 61st sample evicted the first.
C20_Witness ==
    /\ pcU = "u_branch"
    /\ ~loadingVisible
    /\ chartImage = "chart"
    /\ nU = Capacity
    /\ Len(produced) = Capacity + 1

====
